---- MODULE Spec2Model ----
(***************************************************************************)
(* Model of the stroke pipeline of artist_module/quantum_simulator.py:     *)
(* QuantumStrokeSimulator.plan_strokes (samplers, medium adjuster,         *)
(* tunneling, entanglement, serialisation) and simulate_stroke_rendering,  *)
(* of the services around it (app.py: init_artist_services and the routes  *)
(* /api/artist/generate and /api/artist/history; services.py: AIService;   *)
(* utils.py: DatabaseManager).                                             *)
(*                                                                         *)
(* Encoding of Python values.  The fields the renderer converts (x, y,     *)
(* length, angle, pressure, colour and its entries) are tagged records     *)
(* [t, v]: t is the Python type ("int", "float", "str", "none", "tuple")   *)
(* and v the value.  Floats are scaled integers: pressure in 1/100000,      *)
(* quantum_state in 1/1000, angle in milliradians.  A stroke is a Python   *)
(* dict: a function whose DOMAIN is the set of keys it holds.              *)
(*                                                                         *)
(* Randomness.  Python's `random` module is a deterministic generator      *)
(* with a hidden state seeded once per process.  The model keeps the seed  *)
(* (rng) and the number of draws consumed (draws); the k-th draw is a      *)
(* value in 0..RandModulus-1 read as the fraction u / RandModulus.         *)
(***************************************************************************)
EXTENDS Integers, Sequences, FiniteSets, TLC

VARIABLES
    pc,            \* position in the request: which step comes next
    art_type,      \* plan_strokes argument
    medium_style,  \* plan_strokes argument
    image,         \* the input image: [w, h, kind]
    rng,           \* seed of the random generator: [s, inc]
    draws,         \* number of random draws consumed so far
    strokes,       \* the stroke list the current step works on
    before,        \* the stroke list as it was when the last step started
    error,         \* the exception that ended the call, or "none"
    canvas,        \* the image simulate_stroke_rendering returns
    sim,           \* the fields of the one QuantumStrokeSimulator instance
    peer,          \* the locals of a second request thread while it waits
    app,           \* the Flask app: its services and the request in progress
    db             \* the DatabaseManager and the MySQL database behind it

vars == <<pc, art_type, medium_style, image, rng, draws, strokes, before, error,
          canvas, sim, peer, app, db>>

----------------------------------------------------------------------------
(* Bounds of the model *)

\* Draw resolution: a draw takes RandModulus = 20 * Resolution values.
Resolution == 1

\* Seeds explored: 0..MaxSeed.
MaxSeed == 39

\* Longest stroke list handed directly to the renderer.
MaxStrokes == 3

\* A request thread starts a further call only while the generator has
\* consumed at most MaxDraws draws.
MaxDraws == 20

\* save_artwork is called directly only while the artworks table holds fewer
\* than MaxRows rows.
MaxRows == 24

\* The server takes a further generate request only while it has saved fewer
\* than MaxSaved artworks.
MaxSaved == 2

----------------------------------------------------------------------------
(* Python values *)

PyInt(n) == [t |-> "int", v |-> n]
PyFloat(n) == [t |-> "float", v |-> n]
PyStr(s) == [t |-> "str", v |-> s]
PyTuple(s) == [t |-> "tuple", v |-> s]
PyNone == [t |-> "none", v |-> 0]

IsNumber(val) == val.t \in {"int", "float"}

\* dict[key] = val on a dict d (an insertion or an overwrite)
SetKey(d, key, val) == [k \in (DOMAIN d) \cup {key} |-> IF k = key THEN val ELSE d[k]]

\* dict.get(key, default)
Get(d, key, default) == IF key \in DOMAIN d THEN d[key] ELSE default

Min(a, b) == IF a < b THEN a ELSE b

----------------------------------------------------------------------------
(* The random generator *)

RandModulus == 20 * Resolution

Seeds == {[s |-> n % RandModulus, inc |-> n \div RandModulus] : n \in 0..MaxSeed}

\* The k-th draw (k = 0, 1, ...) of the generator seeded with r.
Draw(r, k) == (r.s + k * r.inc) % RandModulus

\* random.random() > threshold, the threshold in tenths
RandomAbove(u, tenths) == 10 * u > tenths * RandModulus

\* random.randint(a, b): an integer in a..b, both ends included
RandInt(a, b, u) == a + (u * (b - a)) \div (RandModulus - 1)

\* random.uniform(a, b) = a + (b - a) * random()
Uniform(a, b, u) == a + ((b - a) * u) \div RandModulus

\* random.choice(seq): a 1-based position in a sequence of n elements, drawn
\* like randint(1, n), so that the first and the last element can be chosen.
Choice(n, u) == RandInt(1, n, u)

TwoPiMilli == 6283
HalfPiMilli == 1571
PiMilli == 3142

----------------------------------------------------------------------------
(* Images *)

\* np.array(image)[y, x] of an RGB image: three channels in 0..255.
PixelAt(img, x, y) ==
    CASE img.kind = "red"  -> <<255, 0, 0>>
      [] img.kind = "ramp" -> <<(37 * x + 11 * y) % 256, (5 * x) % 256, (3 * y) % 256>>
      [] OTHER             -> <<(200 * ((x + y) % 2)) % 256, 128, 64>>

SmallImages == {[w |-> 1, h |-> 1, kind |-> "red"],
                [w |-> 30, h |-> 30, kind |-> "red"],
                [w |-> 40, h |-> 30, kind |-> "ramp"],
                [w |-> 23, h |-> 17, kind |-> "checker"]}

\* Images of several 100-pixel cells, explored with the Cubist planner only
\* (its cost is per cell; the grid samplers walk every 5 to 10 pixels).
LargeImages == {[w |-> 100, h |-> 100, kind |-> "red"],
                [w |-> 150, h |-> 100, kind |-> "ramp"],
                [w |-> 250, h |-> 250, kind |-> "ramp"],
                [w |-> 300, h |-> 100, kind |-> "checker"]}

ImagesFor(art) == IF art = "Cubism" THEN SmallImages \cup LargeImages ELSE SmallImages

\* art_type: the three keys of plan_strokes and three strings that miss them.
ArtTypes == {"Impressionism", "Cubism", "Realism", "realism", "Realistic", ""}

\* medium_style: the four keys of the table and two strings that miss them.
Mediums ==
    {"Oil Paint", "Watercolor", "Pencil Art", "Digital Painting", "Charcoal",
     "oil paint"}

----------------------------------------------------------------------------
(* Image Sampler *)

\* The values of Python's range(0, n, step), in order.
\* A variant of range(0, n, step) that also yields n when it is a multiple of
\* step.
RangeInclusive(n, step) == [i \in 1..((n \div step) + 1) |-> (i - 1) * step]

Range(n, step) == [i \in 1..((n + step - 1) \div step) |-> (i - 1) * step]

\* A variant of _get_color_at that indexes the array as [x, y].
GetColorAtTransposed(img, x, y) ==
    IF 0 <= x /\ x < img.h /\ 0 <= y /\ y < img.w
    THEN LET c == PixelAt(img, y, x)
         IN  PyTuple(<<PyInt(c[1]), PyInt(c[2]), PyInt(c[3])>>)
    ELSE PyTuple(<<PyInt(128), PyInt(128), PyInt(128)>>)

\* _get_color_at: the first three channels as ints, or mid-gray out of bounds.
GetColorAt(img, x, y) ==
    IF 0 <= y /\ y < img.h /\ 0 <= x /\ x < img.w
    THEN LET c == PixelAt(img, x, y)
         IN  PyTuple(<<PyInt(c[1]), PyInt(c[2]), PyInt(c[3])>>)
    ELSE PyTuple(<<PyInt(128), PyInt(128), PyInt(128)>>)

Abs(n) == IF n < 0 THEN -n ELSE n

\* math.atan2(dy, dx) in milliradians, (dy, dx) # (0, 0): the octant value
\* atan(t) ~ t * (pi/4 + 0.273 * (1 - t)) for 0 <= t <= 1, then the quadrant.
Atan2Milli(dy, dx) ==
    LET lo == Min(Abs(dy), Abs(dx))
        hi == IF Abs(dy) > Abs(dx) THEN Abs(dy) ELSE Abs(dx)
        oct == (lo * (785 * hi + 273 * (hi - lo))) \div (hi * hi)
        first == IF Abs(dy) > Abs(dx) THEN HalfPiMilli - oct ELSE oct
        upper == IF dx < 0 THEN PiMilli - first ELSE first
    IN  IF dy < 0 THEN -upper ELSE upper

\* The difference of two uint8 array elements: numpy wraps it modulo 256.
Uint8Sub(a, b) == (a - b) % 256

\* _get_gradient_angle: [angle, used], used = 1 when the random fallback drew.
GetGradientAngle(img, x, y, u) ==
    IF y > 0 /\ x > 0 /\ y < img.h - 1 /\ x < img.w - 1
    THEN LET dy == Uint8Sub(PixelAt(img, x, y + 1)[1], PixelAt(img, x, y - 1)[1])
             dx == Uint8Sub(PixelAt(img, x + 1, y)[1], PixelAt(img, x - 1, y)[1])
         IN  [angle |-> IF dx # 0 THEN Atan2Milli(dy, dx) ELSE HalfPiMilli, used |-> 0]
    ELSE [angle |-> Uniform(0, TwoPiMilli, u), used |-> 1]

\* The parameters of the three grid samplers: stride, emission threshold of
\* random.random() in tenths, randint range of the length, uniform range of
\* the pressure (1/100000), and whether the angle follows the gradient.
ImpressionistStyle ==
    [type |-> "brush", stride |-> 10, above |-> 7, lenLo |-> 5, lenHi |-> 15,
     pLo |-> 30000, pHi |-> 80000, gradient |-> FALSE]

\* A variant of the Realistic parameters that scans with stride 4.
RealisticStyleStride4 ==
    [type |-> "smooth", stride |-> 4, above |-> 9, lenLo |-> 10, lenHi |-> 30,
     pLo |-> 20000, pHi |-> 60000, gradient |-> TRUE]

RealisticStyle ==
    [type |-> "smooth", stride |-> 5, above |-> 9, lenLo |-> 10, lenHi |-> 30,
     pLo |-> 20000, pHi |-> 60000, gradient |-> TRUE]

GeneralStyle ==
    [type |-> "general", stride |-> 8, above |-> 8, lenLo |-> 8, lenHi |-> 25,
     pLo |-> 40000, pHi |-> 70000, gradient |-> FALSE]

\* The stroke emitted at grid point (x, y), its draws starting at draw k (the
\* emission draw is k - 1): length, angle, pressure, colour, quantum_state in
\* the order the dict literal evaluates them.  [stroke, used].
GridStroke(img, style, r, x, y, k) ==
    LET len == RandInt(style.lenLo, style.lenHi, Draw(r, k))
        ga  == GetGradientAngle(img, x, y, Draw(r, k + 1))
        ang == IF style.gradient THEN ga
               ELSE [angle |-> Uniform(0, TwoPiMilli, Draw(r, k + 1)), used |-> 1]
        kp  == k + 1 + ang.used
    IN  [stroke |->
            [type |-> style.type,
             x |-> PyInt(x),
             y |-> PyInt(y),
             length |-> PyInt(len),
             angle |-> PyFloat(ang.angle),
             pressure |-> PyFloat(Uniform(style.pLo, style.pHi, Draw(r, kp))),
             color |-> GetColorAt(img, x, y),
             quantum_state |-> PyFloat(Uniform(0, 1000, Draw(r, kp + 1)))],
         used |-> kp + 2 - k]

\* The strokes of the walk so far followed by those of the rest of the walk,
\* with the draws consumed at the end of it.
Then(first, rest) == [strokes |-> first \o rest.strokes, draws |-> rest.draws]

\* The inner loop `for x in range(0, width, stride)` of row y, from column
\* number c on, with k draws consumed: the strokes it appends and the draws
\* consumed after it.  [strokes, draws].
RECURSIVE GridRow(_, _, _, _, _, _)
GridRow(img, style, r, y, c, k) ==
    LET xs == Range(img.w, style.stride)
    IN  IF c >= Len(xs)
        THEN [strokes |-> <<>>, draws |-> k]
        ELSE IF RandomAbove(Draw(r, k), style.above)
             THEN LET g == GridStroke(img, style, r, xs[c + 1], y, k + 1)
                  IN  Then(<<g.stroke>>,
                           GridRow(img, style, r, y, c + 1, k + 1 + g.used))
             ELSE GridRow(img, style, r, y, c + 1, k + 1)

\* The outer loop `for y in range(0, height, stride)` from row number p on,
\* with k draws consumed.  [strokes, draws].
RECURSIVE GridWalk(_, _, _, _, _)
GridWalk(img, style, r, p, k) ==
    LET ys == Range(img.h, style.stride)
    IN  IF p >= Len(ys)
        THEN [strokes |-> <<>>, draws |-> k]
        ELSE LET row == GridRow(img, style, r, ys[p + 1], 0, k)
             IN  Then(row.strokes, GridWalk(img, style, r, p + 1, row.draws))

PlanImpressionistStrokes(img, r, k) == GridWalk(img, ImpressionistStyle, r, 0, k)

PlanRealisticStrokes(img, r, k) == GridWalk(img, RealisticStyle, r, 0, k)

PlanGeneralStrokes(img, r, k) == GridWalk(img, GeneralStyle, r, 0, k)

cell_size == 100

\* A variant of _divide_geometric that keeps whole cells only (the ranges
\* stop at the last full cell).
DivideGeometricFullCells(width, height) ==
    LET xs == Range(width - cell_size + 1, cell_size)
        ys == Range(height - cell_size + 1, cell_size)
    IN  [j \in 1..(Len(xs) * Len(ys)) |->
            [x |-> xs[((j - 1) % Len(xs)) + 1],
             y |-> ys[((j - 1) \div Len(xs)) + 1],
             width |-> cell_size,
             height |-> cell_size]]

\* A variant of _divide_geometric that does not clip the last cell of a row
\* or column to the image.
DivideGeometricUnclipped(width, height) ==
    LET xs == Range(width, cell_size)
        ys == Range(height, cell_size)
    IN  [j \in 1..(Len(xs) * Len(ys)) |->
            [x |-> xs[((j - 1) % Len(xs)) + 1],
             y |-> ys[((j - 1) \div Len(xs)) + 1],
             width |-> cell_size,
             height |-> cell_size]]

\* _divide_geometric: the cells, row by row.
DivideGeometric(width, height) ==
    LET xs == Range(width, cell_size)
        ys == Range(height, cell_size)
    IN  [j \in 1..(Len(xs) * Len(ys)) |->
            LET x == xs[((j - 1) % Len(xs)) + 1]
                y == ys[((j - 1) \div Len(xs)) + 1]
            IN  [x |-> x, y |-> y,
                 width |-> Min(cell_size, width - x),
                 height |-> Min(cell_size, height - y)]]

\* The angles of `for angle in [0, 45, 90, 135]`.
CubistAngles == <<0, 45, 90, 135>>

\* _plan_cubist_strokes: per region one stroke per angle; float(angle) keeps
\* the number, so 45 is stored as the float 45.0 (45000 in 1/1000).  Each
\* stroke draws its length, then its quantum_state.
PlanCubistStrokes(img, r, k) ==
    LET regions == DivideGeometric(img.w, img.h)
        n == Len(regions) * Len(CubistAngles)
    IN  [strokes |->
            [q \in 1..n |->
                [type |-> "geometric",
                 region |-> regions[((q - 1) \div Len(CubistAngles)) + 1],
                 angle |-> PyFloat(1000 * CubistAngles[((q - 1) % Len(CubistAngles)) + 1]),
                 length |-> PyInt(RandInt(20, 50, Draw(r, k + 2 * (q - 1)))),
                 pressure |-> PyFloat(50000),
                 quantum_state |-> PyFloat(Uniform(0, 1000, Draw(r, k + 2 * (q - 1) + 1)))]],
         draws |-> k + 2 * n]

\* A variant of the selection that ignores the case of the first letter.
PlanBaseStrokesAnyCase(art, img, r, k) ==
    IF art \in {"Impressionism", "impressionism"} THEN PlanImpressionistStrokes(img, r, k)
    ELSE IF art \in {"Cubism", "cubism"} THEN PlanCubistStrokes(img, r, k)
    ELSE IF art \in {"Realism", "realism"} THEN PlanRealisticStrokes(img, r, k)
    ELSE PlanGeneralStrokes(img, r, k)

\* The strategy plan_strokes selects for art_type.
PlanBaseStrokes(art, img, r, k) ==
    IF art = "Impressionism" THEN PlanImpressionistStrokes(img, r, k)
    ELSE IF art = "Cubism" THEN PlanCubistStrokes(img, r, k)
    ELSE IF art = "Realism" THEN PlanRealisticStrokes(img, r, k)
    ELSE PlanGeneralStrokes(img, r, k)

----------------------------------------------------------------------------
(* Medium Adjuster *)

\* A variant of the table whose default entry repeats 0.5 for blending.
MediumPropertiesWrongDefault(medium) ==
    CASE medium = "Oil Paint"        -> [viscosity |-> 8, blending |-> 9, drying |-> 1]
      [] medium = "Watercolor"       -> [viscosity |-> 3, blending |-> 7, drying |-> 8]
      [] medium = "Pencil Art"       -> [viscosity |-> 1, blending |-> 4, drying |-> 9]
      [] medium = "Digital Painting" -> [viscosity |-> 5, blending |-> 10, drying |-> 0]
      [] OTHER                       -> [viscosity |-> 5, blending |-> 5, drying |-> 5]

\* The medium_properties table and the default of .get(), in tenths.
MediumProperties(medium) ==
    CASE medium = "Oil Paint"        -> [viscosity |-> 8, blending |-> 9, drying |-> 1]
      [] medium = "Watercolor"       -> [viscosity |-> 3, blending |-> 7, drying |-> 8]
      [] medium = "Pencil Art"       -> [viscosity |-> 1, blending |-> 4, drying |-> 9]
      [] medium = "Digital Painting" -> [viscosity |-> 5, blending |-> 10, drying |-> 0]
      [] OTHER                       -> [viscosity |-> 5, blending |-> 7, drying |-> 5]

\* A variant of the loop body that rounds the length to the nearest integer.
AdjustStrokeRounded(stroke, props) ==
    [k \in (DOMAIN stroke) \cup {"medium_properties"} |->
        CASE k = "medium_properties" -> props
          [] k = "pressure" -> PyFloat((stroke.pressure.v * props.viscosity) \div 10)
          [] k = "length"   -> PyInt((stroke.length.v * (20 + props.blending) + 10) \div 20)
          [] OTHER          -> stroke[k]]

\* The loop body of _apply_medium_properties on one stroke: attach props,
\* pressure *= viscosity, length = int(length * (1 + blending * 0.5)).
AdjustStroke(stroke, props) ==
    [k \in (DOMAIN stroke) \cup {"medium_properties"} |->
        CASE k = "medium_properties" -> props
          [] k = "pressure" -> PyFloat((stroke.pressure.v * props.viscosity) \div 10)
          [] k = "length"   -> PyInt((stroke.length.v * (20 + props.blending)) \div 20)
          [] OTHER          -> stroke[k]]

\* _apply_medium_properties
ApplyMediumProperties(strks, medium) ==
    LET props == MediumProperties(medium)
    IN  [i \in 1..Len(strks) |-> AdjustStroke(strks[i], props)]

----------------------------------------------------------------------------
(* Quantum Decorator *)

\* A variant of the iteration without .copy(): the chosen stroke itself is
\* moved and flagged, and appended a second time.
TunnelOnceNoCopy(cur, r, k) ==
    LET at   == Choice(Len(cur), Draw(r, k))
        base == cur[at]
    IN  IF "x" \notin DOMAIN base
        THEN [strokes |-> cur, draws |-> k + 1, error |-> "KeyError"]
        ELSE IF "y" \notin DOMAIN base
        THEN [strokes |-> cur, draws |-> k + 2, error |-> "KeyError"]
        ELSE LET moved ==
                    [key \in (DOMAIN base) \cup {"quantum_tunnel"} |->
                        CASE key = "x" -> PyInt(base.x.v + RandInt(-50, 50, Draw(r, k + 1)))
                          [] key = "y" -> PyInt(base.y.v + RandInt(-50, 50, Draw(r, k + 2)))
                          [] key = "quantum_state" ->
                                 PyFloat(Uniform(800, 1000, Draw(r, k + 3)))
                          [] key = "quantum_tunnel" -> TRUE
                          [] OTHER -> base[key]]
             IN  [strokes |-> Append([j \in 1..Len(cur) |->
                                         IF j = at THEN moved ELSE cur[j]], moved),
                  draws |-> k + 4, error |-> "none"]

\* One iteration of the tunneling loop on the list cur, from draw k:
\* random.choice, copy, x += randint, y += randint, quantum_state, flag,
\* append.  Reading a missing 'x' or 'y' raises KeyError before the offset
\* is drawn.  [strokes, draws, error].
TunnelOnce(cur, r, k) ==
    LET base == cur[Choice(Len(cur), Draw(r, k))]
    IN  IF "x" \notin DOMAIN base
        THEN [strokes |-> cur, draws |-> k + 1, error |-> "KeyError"]
        ELSE IF "y" \notin DOMAIN base
        THEN [strokes |-> cur, draws |-> k + 2, error |-> "KeyError"]
        ELSE LET moved ==
                    [key \in (DOMAIN base) \cup {"quantum_tunnel"} |->
                        CASE key = "x" -> PyInt(base.x.v + RandInt(-50, 50, Draw(r, k + 1)))
                          [] key = "y" -> PyInt(base.y.v + RandInt(-50, 50, Draw(r, k + 2)))
                          [] key = "quantum_state" ->
                                 PyFloat(Uniform(800, 1000, Draw(r, k + 3)))
                          [] key = "quantum_tunnel" -> TRUE
                          [] OTHER -> base[key]]
             IN  [strokes |-> Append(cur, moved), draws |-> k + 4, error |-> "none"]

\* The iterations of `for _ in range(...)` still to run, todo of them.
RECURSIVE TunnelLoop(_, _, _, _)
TunnelLoop(cur, r, k, todo) ==
    IF todo = 0 \/ cur = <<>>
    THEN [strokes |-> cur, draws |-> k, error |-> "none"]
    ELSE LET step == TunnelOnce(cur, r, k)
         IN  IF step.error # "none" THEN step
             ELSE TunnelLoop(step.strokes, r, step.draws, todo - 1)

\* int(len(strokes) * 0.1): the number of tunneling iterations
TunnelCount(n) == n \div 10

\* The tunneling half of _add_quantum_effects.
AddTunneling(strks, r, k) == TunnelLoop(strks, r, k, TunnelCount(Len(strks)))

\* The step of the entanglement walk, `range(0, len(strokes), 5)`.
EntangleStep == 5

\* The body of the entanglement loop at (0-based) index i.
EntangleAt(cur, i) ==
    IF i + 1 < Len(cur)
    THEN [j \in 1..Len(cur) |->
            IF j = i + 1 THEN SetKey(cur[j], "entangled_with", i + 1)
            ELSE IF j = i + 2 THEN SetKey(cur[j], "entangled_with", i)
            ELSE cur[j]]
    ELSE cur

RECURSIVE EntangleFrom(_, _, _)
EntangleFrom(cur, idx, n) ==
    IF n > Len(idx) THEN cur ELSE EntangleFrom(EntangleAt(cur, idx[n]), idx, n + 1)

\* A variant of the walk that visits every index (step 1 instead of 5).
AddEntanglementEveryIndex(strks) == EntangleFrom(strks, Range(Len(strks), 1), 1)

\* A variant of the walk that steps by 4.
AddEntanglementStep4(strks) == EntangleFrom(strks, Range(Len(strks), 4), 1)

\* The entanglement half of _add_quantum_effects.
AddEntanglement(strks) == EntangleFrom(strks, Range(Len(strks), EntangleStep), 1)

----------------------------------------------------------------------------
(* Serialisation *)

\* _convert_to_serializable on one value.  The planners store Python-native
\* ints, floats, bools and tuples of ints (never numpy values), which the
\* branches keep as they are; a nested dict (region, medium_properties) is
\* rebuilt key by key.
ConvertValue(key, val) ==
    IF key \in {"region", "medium_properties"}
    THEN [k \in DOMAIN val |-> val[k]]
    ELSE val

ConvertToSerializable(stroke) == [k \in DOMAIN stroke |-> ConvertValue(k, stroke[k])]

----------------------------------------------------------------------------
(* Stroke Renderer *)

\* The key of sorted(): s.get('pressure', 0.5)
SortKey(stroke) == Get(stroke, "pressure", PyFloat(50000))

\* a < b on two sort keys that can be compared.  Numbers compare by value;
\* the strings of this model are all equal, so none is less than another.
KeyLess(a, b) == IsNumber(a) /\ IsNumber(b) /\ a.v < b.v

\* sorted() compares keys with <, which raises TypeError between a number
\* and a str, and between None and anything; one element is never compared.
SortRaises(keys) ==
    /\ Len(keys) >= 2
    /\ ~(\A i \in 1..Len(keys) : IsNumber(keys[i]))
    /\ ~(\A i \in 1..Len(keys) : keys[i].t = "str")

\* A variant of the sort that is not stable: equal keys come out reversed.
SortedOrderUnstable(keys) ==
    LET Ahead(i) == {j \in 1..Len(keys) :
                        \/ KeyLess(keys[j], keys[i])
                        \/ (~KeyLess(keys[i], keys[j]) /\ j > i)}
    IN  [p \in 1..Len(keys) |->
            CHOOSE i \in 1..Len(keys) : Cardinality(Ahead(i)) = p - 1]

\* sorted(strokes, key=...): the positions of the input list in sorted order.
\* The sort is stable: element i comes after every element with a smaller
\* key and after every earlier element with an equal key.
SortedOrder(keys) ==
    LET Ahead(i) == {j \in 1..Len(keys) :
                        \/ KeyLess(keys[j], keys[i])
                        \/ (~KeyLess(keys[i], keys[j]) /\ j < i)}
    IN  [p \in 1..Len(keys) |->
            CHOOSE i \in 1..Len(keys) : Cardinality(Ahead(i)) = p - 1]

\* float(val) and int(val) raise on a str that is no number, on None and on
\* a tuple; the strings of this model are no numbers.
ConvertRaises(val) == ~IsNumber(val)

\* color[:3]
FirstThree(seq) == SubSeq(seq, 1, Min(3, Len(seq)))

Gold == <<255, 215, 0>>

\* draw.line(..., fill=color) on an RGB image accepts a tuple of one or three
\* ints (four before the slice) and raises TypeError on any other length.
FillRaises(fill) == Len(fill) \notin {1, 3}

\* The body of the try block for one stroke, at position i of the input
\* list: [drawn, line].  drawn is FALSE when a statement raised and the
\* except clause skipped the stroke.
RenderOne(stroke, i) ==
    LET x1 == Get(stroke, "x", PyInt(0))
        y1 == Get(stroke, "y", PyInt(0))
        length == Get(stroke, "length", PyInt(10))
        angle == Get(stroke, "angle", PyInt(0))
        color == Get(stroke, "color", PyTuple(<<PyInt(255), PyInt(215), PyInt(0)>>))
        isSeq == color.t \in {"tuple", "list"}
        parts == IF isSeq THEN FirstThree(color.v) ELSE <<>>
        partsRaise == \E c \in 1..Len(parts) : ConvertRaises(parts[c])
        fill == IF isSeq THEN [c \in 1..Len(parts) |-> parts[c].v] ELSE Gold
        tunneled == Get(stroke, "quantum_tunnel", FALSE)
        alphaRaises == ~tunneled /\ ConvertRaises(Get(stroke, "pressure", PyFloat(50000)))
        raised == \/ ConvertRaises(x1) \/ ConvertRaises(y1)
                  \/ ConvertRaises(length) \/ ConvertRaises(angle)
                  \/ (isSeq /\ partsRaise)
                  \/ alphaRaises
                  \/ FillRaises(fill)
    IN  IF raised
        THEN [drawn |-> FALSE, line |-> <<>>]
        ELSE [drawn |-> TRUE,
              line |-> [stroke |-> i, x1 |-> x1.v, y1 |-> y1.v, length |-> length.v,
                        angle |-> angle.v, fill |-> fill, width |-> 2]]

IsDrawn(one) == one.drawn

\* A variant of the render loop with the try around the whole loop: the
\* first stroke that raises ends the drawing.
DrawAllAbort(strks, order) ==
    LET tried == [n \in 1..Len(order) |-> RenderOne(strks[order[n]], order[n])]
        failed == {n \in 1..Len(order) : ~tried[n].drawn}
        stop == IF failed = {} THEN Len(order) + 1
                ELSE CHOOSE n \in failed : \A m \in failed : n <= m
    IN  [n \in 1..(stop - 1) |-> tried[n].line]

\* The render loop over the sorted strokes: the lines drawn, in drawing order.
DrawAll(strks, order) ==
    LET tried == [n \in 1..Len(order) |-> RenderOne(strks[order[n]], order[n])]
        done == SelectSeq(tried, IsDrawn)
    IN  [n \in 1..Len(done) |-> done[n].line]

NoCanvas == [size |-> <<0, 0>>, background |-> "none", lines |-> <<>>]

\* A variant of simulate_stroke_rendering that creates the image with the
\* two dimensions exchanged.
SimulateSizeSwapped(img, strks) ==
    LET keys == [i \in 1..Len(strks) |-> SortKey(strks[i])]
    IN  IF SortRaises(keys)
        THEN [error |-> "TypeError", canvas |-> NoCanvas]
        ELSE [error |-> "none",
              canvas |-> [size |-> <<img.h, img.w>>, background |-> "white",
                          lines |-> DrawAll(strks, SortedOrder(keys))]]

\* simulate_stroke_rendering: [error, canvas].  Image.new('RGB', image.size,
\* color='white'), sorted(), the loop, return stroke_image.
SimulateStrokeRendering(img, strks) ==
    LET keys == [i \in 1..Len(strks) |-> SortKey(strks[i])]
    IN  IF SortRaises(keys)
        THEN [error |-> "TypeError", canvas |-> NoCanvas]
        ELSE [error |-> "none",
              canvas |-> [size |-> <<img.w, img.h>>, background |-> "white",
                          lines |-> DrawAll(strks, SortedOrder(keys))]]

----------------------------------------------------------------------------
(* The request: plan_strokes step by step, then simulate_stroke_rendering *)

\* QuantumStrokeSimulator.__init__: both fields are empty lists.
NewSimulator == [stroke_sequences |-> <<>>, quantum_states |-> <<>>]

\* No second request is in progress.
NoPeer == [pc |-> "idle"]

\* The simulator is used without the Flask app and without a database.
NoApp == [phase |-> "off"]

NoDatabase == [connection |-> "off"]

Init ==
    /\ pc = "start"
    /\ art_type \in ArtTypes
    /\ medium_style \in Mediums
    /\ image \in ImagesFor(art_type)
    /\ rng \in Seeds
    /\ draws = 0
    /\ strokes = <<>>
    /\ before = <<>>
    /\ error = "none"
    /\ canvas = NoCanvas
    /\ sim = NewSimulator
    /\ peer = NoPeer
    /\ app = NoApp
    /\ db = NoDatabase

\* plan_strokes, lines 21-31: the base strokes of the art type's strategy
PlanBase ==
    /\ pc = "start"
    /\ LET out == PlanBaseStrokes(art_type, image, rng, draws)
       IN  /\ strokes' = out.strokes
           /\ draws' = out.draws
    /\ before' = strokes
    /\ pc' = "sampled"
    /\ UNCHANGED <<art_type, medium_style, image, rng, error, canvas, sim, peer, app, db>>

\* plan_strokes, line 34
ApplyMedium ==
    /\ pc = "sampled"
    /\ strokes' = ApplyMediumProperties(strokes, medium_style)
    /\ before' = strokes
    /\ pc' = "adjusted"
    /\ UNCHANGED <<art_type, medium_style, image, rng, draws, error, canvas, sim, peer, app, db>>

\* plan_strokes, line 37, first loop of _add_quantum_effects; a KeyError
\* leaves plan_strokes
Tunnel ==
    /\ pc = "adjusted"
    /\ LET out == AddTunneling(strokes, rng, draws)
       IN  /\ strokes' = out.strokes
           /\ draws' = out.draws
           /\ error' = out.error
           /\ pc' = IF out.error = "none" THEN "tunneled" ELSE "plan_raised"
    /\ before' = strokes
    /\ UNCHANGED <<art_type, medium_style, image, rng, canvas, sim, peer, app, db>>

\* second loop of _add_quantum_effects
Entangle ==
    /\ pc = "tunneled"
    /\ strokes' = AddEntanglement(strokes)
    /\ before' = strokes
    /\ pc' = "entangled"
    /\ UNCHANGED <<art_type, medium_style, image, rng, draws, error, canvas, sim, peer, app, db>>

\* plan_strokes, lines 39-45
Serialize ==
    /\ pc = "entangled"
    /\ strokes' = [i \in 1..Len(strokes) |-> ConvertToSerializable(strokes[i])]
    /\ before' = strokes
    /\ pc' = "planned"
    /\ UNCHANGED <<art_type, medium_style, image, rng, draws, error, canvas, sim, peer, app, db>>

\* A variant of the renderer that sorts its argument in place
\* (strokes.sort(key=...)) instead of building a sorted copy.
RenderSortInPlace ==
    /\ pc = "planned"
    /\ LET out  == SimulateStrokeRendering(image, strokes)
           keys == [i \in 1..Len(strokes) |-> SortKey(strokes[i])]
       IN  /\ canvas' = out.canvas
           /\ error' = out.error
           /\ pc' = IF out.error = "none" THEN "rendered" ELSE "render_raised"
           /\ strokes' = IF out.error = "none"
                         THEN [p \in 1..Len(strokes) |-> strokes[SortedOrder(keys)[p]]]
                         ELSE strokes
    /\ UNCHANGED <<art_type, medium_style, image, rng, draws, before, sim, peer, app, db>>

\* simulate_stroke_rendering(image, strokes)
Render ==
    /\ pc = "planned"
    /\ LET out == SimulateStrokeRendering(image, strokes)
       IN  /\ canvas' = out.canvas
           /\ error' = out.error
           /\ pc' = IF out.error = "none" THEN "rendered" ELSE "render_raised"
    /\ UNCHANGED <<art_type, medium_style, image, rng, draws, strokes, before, sim, peer, app, db>>

Next == PlanBase \/ ApplyMedium \/ Tunnel \/ Entangle \/ Serialize \/ Render

Spec == Init /\ [][Next]_vars

----------------------------------------------------------------------------
(* simulate_stroke_rendering called directly, on any list of stroke dicts *)

\* A well-formed stroke at x with pressure p, as plan_strokes returns them.
PlainStroke(x, p) ==
    [type |-> "brush", x |-> PyInt(x), y |-> PyInt(1), length |-> PyInt(5),
     angle |-> PyFloat(785), pressure |-> PyFloat(p),
     color |-> PyTuple(<<PyInt(255), PyInt(0), PyInt(0)>>),
     quantum_state |-> PyFloat(500)]

\* The same stroke without the key.
Without(stroke, key) == [k \in (DOMAIN stroke) \ {key} |-> stroke[k]]

WellFormedStrokes ==
    {PlainStroke(1, 20000),
     PlainStroke(2, 50000),
     Without(PlainStroke(3, 50000), "pressure"),
     SetKey(PlainStroke(4, 80000), "quantum_tunnel", TRUE),
     PlainStroke(4, 80000),
     PlainStroke(5, 50000)}

\* Strokes with one non-numeric coordinate, length or angle.
BadGeometryStrokes ==
    {SetKey(PlainStroke(11, 30000), "x", PyStr("abc")),
     SetKey(PlainStroke(12, 50000), "y", PyNone),
     SetKey(PlainStroke(13, 60000), "length", PyStr("abc")),
     SetKey(PlainStroke(14, 10000), "angle", PyNone)}

\* Strokes with a malformed colour or pressure.
BadOtherStrokes ==
    {SetKey(PlainStroke(21, 40000), "color", PyTuple(<<PyInt(1), PyInt(2)>>)),
     SetKey(PlainStroke(22, 40000), "color", PyStr("red")),
     Without(PlainStroke(24, 40000), "color"),
     SetKey(PlainStroke(25, 40000), "color", PyTuple(<<PyStr("abc"), PyInt(0), PyInt(0)>>)),
     SetKey(PlainStroke(23, 0), "pressure", PyStr("abc")),
     SetKey(SetKey(PlainStroke(23, 0), "pressure", PyStr("abc")), "quantum_tunnel", TRUE)}

MalformedStrokes == BadGeometryStrokes \cup BadOtherStrokes

RenderInputs == WellFormedStrokes \cup MalformedStrokes

RenderImages == {[w |-> 1, h |-> 1, kind |-> "red"], [w |-> 40, h |-> 30, kind |-> "ramp"]}

InitRender ==
    /\ pc = "planned"
    /\ art_type = "Realism"
    /\ medium_style = "Oil Paint"
    /\ image \in RenderImages
    /\ rng = [s |-> 0, inc |-> 0]
    /\ draws = 0
    /\ strokes \in UNION {[1..n -> RenderInputs] : n \in 0..MaxStrokes}
    /\ before = <<>>
    /\ error = "none"
    /\ canvas = NoCanvas
    /\ sim = NewSimulator
    /\ peer = NoPeer
    /\ app = NoApp
    /\ db = NoDatabase

NextRender == Render

SpecRender == InitRender /\ [][NextRender]_vars

-----------------------------------------------------------------------------
(* The Realistic sampler and the medium adjuster on a 100 x 100 image of one
   colour: plan_strokes(image, 'Realism', medium) up to line 34. *)

SolidRed100 == [w |-> 100, h |-> 100, kind |-> "red"]

InitRealism ==
    /\ pc = "start"
    /\ art_type = "Realism"
    /\ medium_style \in Mediums
    /\ image = SolidRed100
    /\ rng \in Seeds
    /\ draws = 0
    /\ strokes = <<>>
    /\ before = <<>>
    /\ error = "none"
    /\ canvas = NoCanvas
    /\ sim = NewSimulator
    /\ peer = NoPeer
    /\ app = NoApp
    /\ db = NoDatabase

NextRealism == PlanBase \/ ApplyMedium

SpecRealism == InitRealism /\ [][NextRealism]_vars

-----------------------------------------------------------------------------
(* The Cubist sampler on images of any width and height around the cell
   size: plan_strokes(image, 'Cubism', medium) up to line 27. *)

\* Widths and heights: one pixel, below, at and above one and two cells.
CellSides == {1, 99, 100, 101, 200, 201}

InitCubism ==
    /\ pc = "start"
    /\ art_type = "Cubism"
    /\ medium_style = "Oil Paint"
    /\ image \in {[w |-> a, h |-> b, kind |-> "ramp"] : a, b \in CellSides}
    /\ rng \in {r \in Seeds : r.s < 3}
    /\ draws = 0
    /\ strokes = <<>>
    /\ before = <<>>
    /\ error = "none"
    /\ canvas = NoCanvas
    /\ sim = NewSimulator
    /\ peer = NoPeer
    /\ app = NoApp
    /\ db = NoDatabase

NextCubism == PlanBase

SpecCubism == InitCubism /\ [][NextCubism]_vars

-----------------------------------------------------------------------------
(* Two request threads on the one simulator instance of app.py.  Each thread
   runs generate_art's calls plan_strokes and simulate_stroke_rendering on
   its own locals; the instance fields and the random generator are shared.
   The variables pc .. canvas are the locals of the thread that runs, peer
   holds those of the thread that waits. *)

\* The (art_type, image) arguments of the calls.
CallArgs ==
    {[art_type |-> "Impressionism", image |-> [w |-> 23, h |-> 17, kind |-> "checker"]],
     [art_type |-> "realism", image |-> [w |-> 40, h |-> 30, kind |-> "ramp"]],
     [art_type |-> "Cubism", image |-> [w |-> 250, h |-> 250, kind |-> "ramp"]]}

\* The locals of the running thread.
ThreadLocals ==
    [pc |-> pc, art_type |-> art_type, medium_style |-> medium_style,
     image |-> image, strokes |-> strokes, before |-> before, error |-> error,
     canvas |-> canvas]

\* The locals of a thread that is about to call plan_strokes.
FreshCall(args, medium) ==
    [pc |-> "start", art_type |-> args.art_type, medium_style |-> medium,
     image |-> args.image, strokes |-> <<>>, before |-> <<>>, error |-> "none",
     canvas |-> NoCanvas]

InitCalls ==
    /\ pc = "start"
    /\ \E a \in CallArgs : art_type = a.art_type /\ image = a.image
    /\ medium_style = "Watercolor"
    /\ strokes = <<>>
    /\ before = <<>>
    /\ error = "none"
    /\ canvas = NoCanvas
    /\ rng \in Seeds
    /\ draws = 0
    /\ sim = NewSimulator
    /\ peer \in {FreshCall(a, "Watercolor") : a \in CallArgs}
    /\ app = NoApp
    /\ db = NoDatabase

\* The scheduler hands the processor to the other request thread.
Switch ==
    /\ peer.pc # "idle"
    /\ peer' = ThreadLocals
    /\ pc' = peer.pc
    /\ art_type' = peer.art_type
    /\ medium_style' = peer.medium_style
    /\ image' = peer.image
    /\ strokes' = peer.strokes
    /\ before' = peer.before
    /\ error' = peer.error
    /\ canvas' = peer.canvas
    /\ UNCHANGED <<rng, draws, sim, app, db>>

\* The calls of the running thread have ended.
CallsEnded == pc \in {"rendered", "render_raised", "plan_raised"}

\* The running thread serves its next request, while the generator has
\* consumed at most MaxDraws draws.
NewCall ==
    /\ CallsEnded
    /\ draws <= MaxDraws
    /\ pc' = "start"
    /\ \E a \in CallArgs : art_type' = a.art_type /\ image' = a.image
    /\ strokes' = <<>>
    /\ before' = <<>>
    /\ error' = "none"
    /\ canvas' = NoCanvas
    /\ UNCHANGED <<medium_style, rng, draws, sim, peer, app, db>>

NextCalls == Next \/ Switch \/ NewCall

SpecCalls == InitCalls /\ [][NextCalls]_vars

----------------------------------------------------------------------------
(* artist_module/utils.py: DatabaseManager and the database behind it.  db is
   a record: reachable says whether pymysql.connect would succeed now, rows
   is the artworks table in insertion order, connection is the field
   self.connection: "None", or a Connection object that is "open", "closed"
   (after Connection.close()) or "lost" (its link to the server broke).  Every
   Connection object is truthy, whatever its state.  last records the latest
   call on the manager and whether the database was reachable when it came. *)

\* What the code asks of self.connection in `if not self.connection`.
Truthy(connection) == connection # "None"

\* A cursor can execute and commit on this connection.
Usable(d) == d.connection = "open" /\ d.reachable

\* DatabaseManager.connect: the exception of a failed connect is caught and
\* the field is None.
Connect(d) ==
    [d EXCEPT !.connection = IF d.reachable THEN "open" ELSE "None"]

\* The first lines of both operations: connect only when the field is None.
EnsureConnection(d) == IF Truthy(d.connection) THEN d ELSE Connect(d)

\* DatabaseManager.save_artwork: the new state of db and the return value.
\* The id is the table's AUTO_INCREMENT column.
SaveArtwork(d, user_id) ==
    LET c == EnsureConnection(d)
    IN  IF ~Truthy(c.connection) THEN [db |-> c, ret |-> FALSE]
        ELSE IF Usable(c)
        THEN [db |-> [c EXCEPT !.rows =
                         Append(@, [id |-> Len(c.rows) + 1,
                                    user_id |-> user_id,
                                    image_exists |-> TRUE])],
              ret |-> TRUE]
        ELSE [db |-> c, ret |-> FALSE]

Reverse(s) == [i \in 1..Len(s) |-> s[Len(s) + 1 - i]]

Take(s, n) == SubSeq(s, 1, Min(n, Len(s)))

OfUser(row, user_id) == row.user_id = user_id

\* The SELECT of get_artwork_history: the WHERE clause only when user_id is
\* truthy, newest first, at most limit rows.
SelectArtworks(rows, user_id, limit) ==
    LET matching == IF user_id # "" THEN SelectSeq(rows, LAMBDA r : OfUser(r, user_id))
                    ELSE rows
    IN  Take(Reverse(matching), limit)

\* DatabaseManager.get_artwork_history: the new state of db, the rows
\* returned and whether the query ran.
GetArtworkHistory(d, user_id, limit) ==
    LET c == EnsureConnection(d)
    IN  IF ~Truthy(c.connection) THEN [db |-> c, ret |-> <<>>, ok |-> FALSE]
        ELSE IF Usable(c)
        THEN [db |-> c, ret |-> SelectArtworks(c.rows, user_id, limit), ok |-> TRUE]
        ELSE [db |-> c, ret |-> <<>>, ok |-> FALSE]

\* DatabaseManager.close: Connection.close() raises on a connection that is
\* already closed; the field keeps the closed object.
Close(d) ==
    IF ~Truthy(d.connection) THEN [db |-> d, raised |-> FALSE]
    ELSE IF d.connection = "closed" THEN [db |-> d, raised |-> TRUE]
    ELSE [db |-> [d EXCEPT !.connection = "closed"], raised |-> FALSE]

NoCall == [op |-> "none", reachable |-> FALSE, ok |-> FALSE, raised |-> FALSE]

\* The call just made on the manager.
Called(d, op, reachable, ok, raised) ==
    [d EXCEPT !.last = [op |-> op, reachable |-> reachable, ok |-> ok,
                        raised |-> raised]]

\* DatabaseManager(): the field is None, then one connect.
NewDatabaseManager(d) == Connect([d EXCEPT !.connection = "None"])

----------------------------------------------------------------------------
(* artist_module/services.py: AIService *)

DefaultModel == "stabilityai/stable-diffusion-xl-base-1.0"

\* MODEL_MAPPING.get(art_type, default)
MODEL_MAPPING(art) ==
    CASE art = "Impressionism" -> "stabilityai/stable-diffusion-xl-base-1.0"
      [] art = "Cubism" -> "black-forest-labs/FLUX.1-dev"
      [] art = "Expressionism" -> "stabilityai/stable-diffusion-3-medium-diffusers"
      [] art = "Surrealism" -> "black-forest-labs/FLUX.1-dev"
      [] art = "Pop Art" -> "stabilityai/stable-diffusion-xl-base-1.0"
      [] art = "Realism" -> "black-forest-labs/FLUX.1-schnell"
      [] art = "Abstract Expressionism" -> "stabilityai/stable-diffusion-3-medium-diffusers"
      [] art = "Modernism/Contemporary" -> "black-forest-labs/FLUX.1-dev"
      [] OTHER -> DefaultModel

\* The dict of the except branch of generate_art.
Failure(message) ==
    [success |-> FALSE, error |-> message, image_data |-> "None",
     model_used |-> "None"]

\* The dict of the last lines of the try branch.
Success(model_id) ==
    [success |-> TRUE, error |-> "None", image_data |-> "png",
     model_used |-> model_id]

\* What the remote service does with a request: it returns an image, it
\* raises, or it returns something that is not an image.
RemoteOutcomes == {"image", "raises", "not_an_image"}

\* A variant of generate_art that calls text_to_image again after a remote
\* call that raised.
GenerateArtRetrying(art, reference, remote, effects_fail) ==
    IF reference = "truncated" THEN [result |-> Failure("convert"), calls |-> <<>>]
    ELSE LET call == IF reference = "none" THEN "text_to_image" ELSE "image_to_image"
         IN  IF remote = "raises"
             THEN [result |-> Failure("remote"), calls |-> <<call, "text_to_image">>]
             ELSE IF remote = "not_an_image"
             THEN [result |-> Failure("save"), calls |-> <<call>>]
             ELSE [result |-> Success(MODEL_MAPPING(art)), calls |-> <<call>>]

\* AIService.generate_art: the dict returned and the remote calls made, in
\* order.  reference is "none", "valid" (an image that loads) or "truncated"
\* (an opened image file, not in RGB mode, whose pixel data cannot be read).
\* _generate_with_reference converts the reference before the call;
\* _apply_medium_effects and _simulate_quantum_strokes catch what they raise
\* (effects_fail) and generate_art goes on; image.save raises on a value that
\* is not an image.
GenerateArt(art, reference, remote, effects_fail) ==
    IF reference = "truncated" THEN [result |-> Failure("convert"), calls |-> <<>>]
    ELSE LET call == IF reference = "none" THEN "text_to_image" ELSE "image_to_image"
         IN  IF remote = "raises"
             THEN [result |-> Failure("remote"), calls |-> <<call>>]
             ELSE IF remote = "not_an_image"
             THEN [result |-> Failure("save"), calls |-> <<call>>]
             ELSE [result |-> Success(MODEL_MAPPING(art)), calls |-> <<call>>]

----------------------------------------------------------------------------
(* app.py: init_artist_services and the route /api/artist/generate.  app is a
   record: hf_token says whether HF_TOKEN is set in the environment; the four
   services are "unset" before init_artist_services, then "object" or "None";
   request holds the form fields of the request in progress, result the dict
   of AIService.generate_art, generated the image the remote service
   returned, remote the remote calls and writes the number of files written
   while serving the request, response the JSON body sent back. *)

\* The eight art types the page offers and one the form can still send.
OfferedArtTypes ==
    {"Impressionism", "Cubism", "Expressionism", "Surrealism", "Pop Art",
     "Realism", "Abstract Expressionism", "Modernism/Contemporary"}

FormArtTypes == OfferedArtTypes \cup {"Baroque"}

FormMediums == {"Digital Painting", "Watercolor"}

Prompts == {"", "a cat"}

\* The file of the form field reference_image: none, a name with a
\* disallowed extension, a file that is not an image, an image file cut
\* short, an image.
UploadedFiles == {"none", "bad_extension", "not_an_image", "truncated", "valid"}

\* The images the remote service returns; the Cubist planner is also run on
\* an image of several cells.
GeneratedImages(art) ==
    IF art = "Cubism"
    THEN {[w |-> 23, h |-> 17, kind |-> "checker"], [w |-> 250, h |-> 250, kind |-> "ramp"]}
    ELSE {[w |-> 23, h |-> 17, kind |-> "checker"], [w |-> 40, h |-> 30, kind |-> "ramp"]}

\* The states of the generator a request can meet.
RequestSeeds == {r \in Seeds : r.inc = 1 /\ r.s < 3}

NoRequest == [prompt |-> "", art_type |-> "", medium_style |-> "", file |-> "none"]

NoResult == [success |-> FALSE, error |-> "None", image_data |-> "None",
             model_used |-> "None"]

NoImage == [w |-> 1, h |-> 1, kind |-> "red"]

NoResponse == [kind |-> "none"]

\* jsonify of the error dicts of the route.
ErrorResponse(message) ==
    [kind |-> "generate", success |-> FALSE, error |-> message,
     image_data |-> "None", stroke_data |-> "None", stroke_count |-> 0,
     model_used |-> "None"]

\* jsonify(response_data), lines 283-294
SuccessResponse(result, stroke_data, stroke_count) ==
    [kind |-> "generate", success |-> TRUE, error |-> "None",
     image_data |-> result.image_data, stroke_data |-> stroke_data,
     stroke_count |-> stroke_count, model_used |-> result.model_used]

\* The request is answered.
Respond(a, response) == [a EXCEPT !.phase = "responded", !.response = response]

\* The except branch of a variant of init_artist_services that resets the
\* AI service only.
ServicesAfterFailurePartial(a) ==
    [a EXCEPT !.ai_service = "None"]

\* init_artist_services, lines 116-122: the except branch
ServicesAfterFailure(a) ==
    [a EXCEPT !.ai_service = "None", !.quantum_simulator = "None",
              !.db_manager = "None", !.image_processor = "None"]

\* init_artist_services: AIService() raises without HF_TOKEN, before any
\* other service is made; the other three constructors do not raise.
InitArtistServices ==
    /\ app.phase = "boot"
    /\ IF app.hf_token
       THEN /\ app' = [app EXCEPT !.phase = "idle", !.ai_service = "object",
                                  !.quantum_simulator = "object",
                                  !.db_manager = "object",
                                  !.image_processor = "object"]
            /\ db' = NewDatabaseManager(db)
       ELSE /\ app' = [ServicesAfterFailure(app) EXCEPT !.phase = "idle"]
            /\ db' = db
    /\ sim' = NewSimulator
    /\ UNCHANGED <<pc, art_type, medium_style, image, rng, draws, strokes,
                   before, error, canvas, peer>>

\* generate_art, lines 155-197: the form, the two checks, the reference
\* image, then AIService.generate_art and the return of its failure dict.
GenerateArtRequest(prompt, art, medium, file, remote, effects_fail, generated) ==
    /\ app.phase = "idle"
    /\ LET a == [app EXCEPT !.request = [prompt |-> prompt, art_type |-> art,
                                         medium_style |-> medium, file |-> file],
                            !.result = NoResult, !.remote = <<>>, !.writes = 0,
                            !.response = NoResponse, !.generated = NoImage]
       IN  IF prompt = "" THEN app' = Respond(a, ErrorResponse("Prompt is required"))
           ELSE IF a.ai_service # "object"
           THEN app' = Respond(a, ErrorResponse("AI service not initialized"))
           ELSE IF file = "bad_extension"
           THEN app' = Respond(a, ErrorResponse("Invalid image format"))
           ELSE IF file = "not_an_image"
           THEN app' = Respond([a EXCEPT !.writes = 1],
                               ErrorResponse("cannot identify image file"))
           ELSE LET out == GenerateArt(art, file, remote, effects_fail)
                    b == [a EXCEPT !.writes = IF file = "none" THEN 0 ELSE 1,
                                   !.remote = out.calls,
                                   !.result = out.result]
                IN  IF ~out.result.success
                    THEN app' = Respond(b, ErrorResponse(out.result.error))
                    ELSE app' = [b EXCEPT !.phase = "generated",
                                          !.generated = generated]
    /\ UNCHANGED <<pc, art_type, medium_style, image, rng, draws, strokes,
                   before, error, canvas, sim, peer, db>>

\* generate_art, lines 199-219: the generated image is written to
\* uploads/generated (a failed write ends in the outer except), then
\* plan_strokes is called on it with the request's art type and medium.
SaveGeneratedImage ==
    /\ app.phase = "generated"
    /\ \E written \in BOOLEAN :
          IF ~written
          THEN /\ app' = Respond(app, ErrorResponse("cannot write file"))
               /\ UNCHANGED <<pc, art_type, medium_style, image, rng, draws,
                              strokes, before, error, canvas>>
          ELSE /\ app' = [app EXCEPT !.phase = "strokes", !.writes = @ + 1]
               /\ pc' = "start"
               /\ art_type' = app.request.art_type
               /\ medium_style' = app.request.medium_style
               /\ image' = app.generated
               /\ rng' \in RequestSeeds
               /\ draws' = 0
               /\ strokes' = <<>>
               /\ before' = <<>>
               /\ error' = "none"
               /\ canvas' = NoCanvas
    /\ UNCHANGED <<sim, peer, db>>

\* A variant of lines 245-255 that counts the strokes before the stroke
\* image is saved.
StrokeOutcomeCountFirst(saved) ==
    IF pc = "rendered" /\ saved
    THEN [stroke_data |-> "png", stroke_count |-> Len(strokes), writes |-> 1]
    ELSE [stroke_data |-> "None",
          stroke_count |-> IF pc = "rendered" THEN Len(strokes) ELSE 0,
          writes |-> 0]

\* generate_art, lines 208-255: stroke_image_data and stroke_count are
\* assigned after plan_strokes, the rendering and the save of the stroke
\* image all went through; any exception leaves None and 0.  The copies with
\* list colours of lines 222-238 hold as many strokes as plan_strokes
\* returned, and the renderer treats a list as it treats a tuple.
StrokeOutcome(saved) ==
    IF pc = "rendered" /\ saved
    THEN [stroke_data |-> "png", stroke_count |-> Len(strokes), writes |-> 1]
    ELSE [stroke_data |-> "None", stroke_count |-> 0, writes |-> 0]

\* generate_art, lines 245-294: the stroke image is saved, the artwork is
\* saved through the database manager (its result is not looked at) and the
\* success response is returned.  session holds no user_id.
FinishGenerate ==
    /\ app.phase = "strokes"
    /\ CallsEnded
    /\ \E saved \in BOOLEAN :
          LET out == StrokeOutcome(saved)
              a == [app EXCEPT !.writes = @ + out.writes]
          IN  app' = Respond(a, SuccessResponse(app.result, out.stroke_data,
                                                out.stroke_count))
    /\ db' = IF app.db_manager = "object"
             THEN LET s == SaveArtwork(db, "anonymous")
                  IN  Called(s.db, "save", db.reachable, s.ret, FALSE)
             ELSE db
    /\ UNCHANGED <<pc, art_type, medium_style, image, rng, draws, strokes,
                   before, error, canvas, sim, peer>>

\* The server takes its next request, while it has saved fewer than
\* MaxSaved artworks.
NextRequest ==
    /\ app.phase = "responded"
    /\ Len(db.rows) < MaxSaved
    /\ app' = [app EXCEPT !.phase = "idle", !.request = NoRequest,
                          !.result = NoResult, !.generated = NoImage,
                          !.remote = <<>>, !.writes = 0, !.response = NoResponse]
    /\ pc' = "idle"
    /\ art_type' = ""
    /\ medium_style' = ""
    /\ image' = NoImage
    /\ rng' = [s |-> 0, inc |-> 1]
    /\ draws' = 0
    /\ strokes' = <<>>
    /\ before' = <<>>
    /\ error' = "none"
    /\ canvas' = NoCanvas
    /\ UNCHANGED <<sim, peer, db>>

\* create_app before init_artist_services: no service attribute is set and
\* no DatabaseManager exists; the artworks table is empty.
NewApp(hf_token) ==
    [phase |-> "boot", hf_token |-> hf_token, ai_service |-> "unset",
     quantum_simulator |-> "unset", db_manager |-> "unset",
     image_processor |-> "unset", request |-> NoRequest, result |-> NoResult,
     generated |-> NoImage, remote |-> <<>>, writes |-> 0,
     response |-> NoResponse]

NewDatabase(reachable, rows) ==
    [reachable |-> reachable, connection |-> "None", rows |-> rows,
     last |-> NoCall]

InitApp ==
    /\ pc = "idle"
    /\ art_type = ""
    /\ medium_style = ""
    /\ image = NoImage
    /\ rng = [s |-> 0, inc |-> 1]
    /\ draws = 0
    /\ strokes = <<>>
    /\ before = <<>>
    /\ error = "none"
    /\ canvas = NoCanvas
    /\ sim = NewSimulator
    /\ peer = NoPeer
    /\ app \in {NewApp(t) : t \in BOOLEAN}
    /\ db \in {NewDatabase(r, <<>>) : r \in BOOLEAN}

NextApp ==
    \/ InitArtistServices
    \/ \E prompt \in Prompts, art \in FormArtTypes, medium \in FormMediums,
          file \in UploadedFiles, remote \in RemoteOutcomes,
          effects_fail \in BOOLEAN :
          \E generated \in GeneratedImages(art) :
             GenerateArtRequest(prompt, art, medium, file, remote, effects_fail,
                                generated)
    \/ SaveGeneratedImage
    \/ Next
    \/ FinishGenerate
    \/ NextRequest

SpecApp == InitApp /\ [][NextApp]_vars

----------------------------------------------------------------------------
(* The route /api/artist/history and the calls on the DatabaseManager, on a
   database that goes down and comes back. *)

\* limit=20 in get_art_history
HistoryLimit == 20

\* The query parameter user_id: absent, empty, or a string.
HistoryParams == {"absent", "", "alice", "anonymous", "carol"}

\* Tables the server can find: empty, a few artworks of three users (one
\* whose image file is gone), and more artworks of one user than the limit.
InitialTables ==
    {<<>>,
     <<[id |-> 1, user_id |-> "alice", image_exists |-> TRUE],
       [id |-> 2, user_id |-> "bob", image_exists |-> TRUE],
       [id |-> 3, user_id |-> "anonymous", image_exists |-> TRUE],
       [id |-> 4, user_id |-> "alice", image_exists |-> FALSE]>>,
     [i \in 1..(HistoryLimit + 2) |->
         [id |-> i, user_id |-> "alice", image_exists |-> TRUE]]}

\* get_art_history: request.args.get('user_id', 'anonymous'), the query with
\* limit=20, and one entry per row whose image file exists.
GetArtHistory(param) ==
    /\ app.phase = "idle"
    /\ LET user_id == IF param = "absent" THEN "anonymous" ELSE param
       IN  IF app.db_manager = "object"
           THEN LET h == GetArtworkHistory(db, user_id, HistoryLimit)
                IN  /\ app' = [app EXCEPT !.response =
                                  [kind |-> "history", success |-> TRUE,
                                   error |-> "None", user_id |-> user_id,
                                   artworks |-> SelectSeq(h.ret,
                                                  LAMBDA r : r.image_exists)]]
                    /\ db' = Called(h.db, "history", db.reachable, h.ok, FALSE)
           ELSE /\ app' = [app EXCEPT !.response =
                              [kind |-> "history", success |-> FALSE,
                               error |-> "Database not available",
                               user_id |-> user_id, artworks |-> <<>>]]
                /\ db' = db
    /\ UNCHANGED <<pc, art_type, medium_style, image, rng, draws, strokes,
                   before, error, canvas, sim, peer>>

\* A call of save_artwork with an artwork of the anonymous user.
SaveArtworkCall ==
    /\ app.db_manager = "object"
    /\ Len(db.rows) < MaxRows
    /\ LET s == SaveArtwork(db, "anonymous")
       IN  db' = Called(s.db, "save", db.reachable, s.ret, FALSE)
    /\ UNCHANGED <<pc, art_type, medium_style, image, rng, draws, strokes,
                   before, error, canvas, sim, peer, app>>

\* A call of close().
CloseCall ==
    /\ app.db_manager = "object"
    /\ LET c == Close(db)
       IN  db' = Called(c.db, "close", db.reachable, ~c.raised, c.raised)
    /\ UNCHANGED <<pc, art_type, medium_style, image, rng, draws, strokes,
                   before, error, canvas, sim, peer, app>>

\* The database server stops or the network to it fails; an open connection
\* may survive a short outage or lose its link.
DatabaseGoesDown ==
    /\ db.reachable
    /\ \E connection \in (IF db.connection = "open" THEN {"open", "lost"}
                           ELSE {db.connection}) :
          db' = [db EXCEPT !.reachable = FALSE, !.connection = connection]
    /\ UNCHANGED <<pc, art_type, medium_style, image, rng, draws, strokes,
                   before, error, canvas, sim, peer, app>>

DatabaseComesUp ==
    /\ ~db.reachable
    /\ db' = [db EXCEPT !.reachable = TRUE]
    /\ UNCHANGED <<pc, art_type, medium_style, image, rng, draws, strokes,
                   before, error, canvas, sim, peer, app>>

\* The server after init_artist_services, with or without HF_TOKEN.
ServingApp(hf_token) ==
    IF hf_token
    THEN [NewApp(TRUE) EXCEPT !.phase = "idle", !.ai_service = "object",
                              !.quantum_simulator = "object",
                              !.db_manager = "object",
                              !.image_processor = "object"]
    ELSE [ServicesAfterFailure(NewApp(FALSE)) EXCEPT !.phase = "idle"]

InitDatabase ==
    /\ pc = "idle"
    /\ art_type = ""
    /\ medium_style = ""
    /\ image = NoImage
    /\ rng = [s |-> 0, inc |-> 1]
    /\ draws = 0
    /\ strokes = <<>>
    /\ before = <<>>
    /\ error = "none"
    /\ canvas = NoCanvas
    /\ sim = NewSimulator
    /\ peer = NoPeer
    /\ \E t \in BOOLEAN, r \in BOOLEAN, rows \in InitialTables :
          /\ app = ServingApp(t)
          /\ db = IF t THEN NewDatabaseManager(NewDatabase(r, rows))
                  ELSE NewDatabase(r, rows)

NextDatabase ==
    \/ \E param \in HistoryParams : GetArtHistory(param)
    \/ SaveArtworkCall
    \/ CloseCall
    \/ DatabaseGoesDown
    \/ DatabaseComesUp

SpecDatabase == InitDatabase /\ [][NextDatabase]_vars

----------------------------------------------------------------------------
(* Properties of plan_strokes *)

RecognizedArtTypes == {"Impressionism", "Cubism", "Realism"}

\* C1: for every recognized art type, image and medium, plan_strokes runs to
\* completion and never raises.
C1_PlanNeverRaises ==
    art_type \in RecognizedArtTypes => (pc # "plan_raised" /\ error = "none")

\* The tunneling loop has ended, by falling through or by an exception.
TunnelingEnded == pc \in {"tunneled", "plan_raised"}

\* C2: tunneling adds exactly floor(0.1 * N) strokes to a sequence of N
\* strokes; every added stroke has quantum_state in [0.8, 1.0] and the
\* tunneled flag; no stroke present before gains the flag.
C2_TunnelingAddsTenth ==
    TunnelingEnded =>
        /\ Len(strokes) = Len(before) + (Len(before) \div 10)
        /\ \A i \in 1..Len(strokes) :
              IF i > Len(before)
              THEN /\ "quantum_tunnel" \in DOMAIN strokes[i]
                   /\ strokes[i].quantum_tunnel = TRUE
                   /\ strokes[i].quantum_state.v >= 800
                   /\ strokes[i].quantum_state.v <= 1000
              ELSE "quantum_tunnel" \notin DOMAIN strokes[i]

\* The entanglement walk has run on the list in strokes.
Entangled == pc \in {"entangled", "planned", "rendered", "render_raised"}

\* C3: entanglement links are symmetric in the returned sequence: if stroke
\* i's entangled_with is j then j is a stroke of the sequence and its
\* entangled_with is i.
C3_EntanglementSymmetric ==
    Entangled =>
        \A i \in 1..Len(strokes) :
            "entangled_with" \in DOMAIN strokes[i] =>
                LET j == strokes[i].entangled_with + 1
                IN  /\ j \in 1..Len(strokes)
                    /\ "entangled_with" \in DOMAIN strokes[j]
                    /\ strokes[j].entangled_with + 1 = i

\* Two steps of the walk have linked strokes 0-1 and 5-6 of a returned list.
C3_Witness ==
    /\ pc = "planned"
    /\ Len(strokes) >= 7
    /\ strokes[1].entangled_with = 1
    /\ strokes[2].entangled_with = 0
    /\ strokes[6].entangled_with = 6
    /\ strokes[7].entangled_with = 5

IsRgbTuple(val) ==
    /\ val.t = "tuple"
    /\ Len(val.v) = 3
    /\ \A c \in 1..3 : val.v[c].t = "int" /\ val.v[c].v \in 0..255

\* C4: for every recognized art type, every stroke plan_strokes returns has a
\* colour that is a 3-tuple of integers in 0..255.
C4_ReturnedColorsRgb ==
    (pc = "planned" /\ art_type \in RecognizedArtTypes) =>
        \A i \in 1..Len(strokes) :
            "color" \in DOMAIN strokes[i] /\ IsRgbTuple(strokes[i].color)

\* The documented medium table, in tenths.
DocumentedProps(medium) ==
    IF medium = "Oil Paint" THEN [viscosity |-> 8, blending |-> 9, drying |-> 1]
    ELSE IF medium = "Watercolor" THEN [viscosity |-> 3, blending |-> 7, drying |-> 8]
    ELSE IF medium = "Pencil Art" THEN [viscosity |-> 1, blending |-> 4, drying |-> 9]
    ELSE IF medium = "Digital Painting" THEN [viscosity |-> 5, blending |-> 10, drying |-> 0]
    ELSE [viscosity |-> 5, blending |-> 7, drying |-> 5]

\* C5: the medium properties attached to every stroke are the table entry of
\* the medium, or viscosity 0.5, blending 0.7, drying 0.5 for a medium that
\* is no table key, and these are the values applied to pressure and length.
C5_MediumPropsOrDefault ==
    LET props == DocumentedProps(medium_style)
    IN  /\ pc \in {"adjusted", "tunneled", "entangled", "planned", "rendered"} =>
              \A i \in 1..Len(strokes) :
                  /\ "medium_properties" \in DOMAIN strokes[i]
                  /\ strokes[i].medium_properties = props
        /\ pc = "adjusted" =>
              /\ Len(strokes) = Len(before)
              /\ \A i \in 1..Len(strokes) :
                    /\ 10 * strokes[i].pressure.v = before[i].pressure.v * props.viscosity
                    /\ strokes[i].length.v
                          = (before[i].length.v * (20 + props.blending)) \div 20

\* An unknown medium has been applied to a non-empty stroke list.
C5_Witness ==
    /\ pc = "adjusted"
    /\ medium_style = "Charcoal"
    /\ Len(strokes) > 0
    /\ strokes[1].medium_properties = [viscosity |-> 5, blending |-> 7, drying |-> 5]

\* ceil(n / 100)
CeilHundredth(n) == (n + 99) \div 100

\* C9: Cubist planning on a W x H image emits 4 strokes per cell, one for
\* each angle 0, 45, 90, 135: 4 * ceil(W/100) * ceil(H/100) base strokes (36
\* for 250 x 250), each with pressure exactly 0.5 before medium adjustment.
C9_CubistFourPerCell ==
    (pc = "sampled" /\ art_type = "Cubism") =>
        LET cells == {strokes[i].region : i \in 1..Len(strokes)}
        IN  /\ Len(strokes) = 4 * CeilHundredth(image.w) * CeilHundredth(image.h)
            /\ Cardinality(cells) = CeilHundredth(image.w) * CeilHundredth(image.h)
            /\ \A c \in cells : \A a \in {0, 45000, 90000, 135000} :
                  Cardinality({i \in 1..Len(strokes) :
                                  strokes[i].region = c /\ strokes[i].angle.v = a}) = 1
            /\ \A i \in 1..Len(strokes) : strokes[i].pressure = PyFloat(50000)
            /\ (image.w = 250 /\ image.h = 250) => Len(strokes) = 36

\* The Cubist planner has returned the 36 base strokes of a 250 x 250 image.
C9_Witness ==
    /\ pc = "sampled"
    /\ art_type = "Cubism"
    /\ image.w = 250 /\ image.h = 250
    /\ Len(strokes) = 36

----------------------------------------------------------------------------
(* Properties of simulate_stroke_rendering *)

GeometryKeys == {"x", "y", "length", "angle"}

\* A coordinate, length or angle that float() does not accept.
NonNumericGeometry(stroke) ==
    \E k \in GeometryKeys \cap DOMAIN stroke : stroke[k].t \notin {"int", "float"}

NumericPressure(stroke) ==
    "pressure" \in DOMAIN stroke => stroke.pressure.t \in {"int", "float"}

RgbColor(stroke) == "color" \in DOMAIN stroke => IsRgbTuple(stroke.color)

WellFormed(stroke) ==
    ~NonNumericGeometry(stroke) /\ NumericPressure(stroke) /\ RgbColor(stroke)

\* The positions of the input list whose stroke was drawn.
DrawnStrokes == {canvas.lines[n].stroke : n \in 1..Len(canvas.lines)}

RenderEnded == pc \in {"rendered", "render_raised"}

\* Position b holds the only stroke of the list that is not well formed.
OnlyMalformed(b) ==
    /\ ~WellFormed(strokes[b])
    /\ \A i \in (1..Len(strokes)) \ {b} : WellFormed(strokes[i])

\* C6: with one entry whose x, y, length or angle is non-numeric, the
\* renderer does not raise: that entry is skipped and every other stroke is
\* drawn.
C6_NonNumericGeometrySkipped ==
    \A b \in 1..Len(strokes) :
        (/\ RenderEnded
         /\ OnlyMalformed(b)
         /\ NonNumericGeometry(strokes[b])
         /\ NumericPressure(strokes[b])
         /\ RgbColor(strokes[b]))
        => /\ pc = "rendered"
           /\ error = "none"
           /\ DrawnStrokes = (1..Len(strokes)) \ {b}
           /\ Len(canvas.lines) = Len(strokes) - 1

\* Three strokes were rendered, the second with a non-numeric coordinate:
\* the other two were drawn.
C6_Witness ==
    /\ pc = "rendered"
    /\ Len(strokes) = 3
    /\ NonNumericGeometry(strokes[2])
    /\ WellFormed(strokes[1]) /\ WellFormed(strokes[3])
    /\ DrawnStrokes = {1, 3}

\* C7: the renderer never aborts because of a single malformed stroke,
\* whichever field is malformed (coordinates, length, angle, colour shape,
\* pressure): all well-formed strokes are drawn and an image is returned.
\* The malformed stroke is skipped; one whose colour is no sequence at all is
\* left out of this conjunct, since the renderer gives it the default colour.
C7_NeverAbortsOnOneMalformed ==
    \A b \in 1..Len(strokes) :
        (RenderEnded /\ OnlyMalformed(b))
        => /\ pc = "rendered"
           /\ error = "none"
           /\ (1..Len(strokes)) \ {b} \subseteq DrawnStrokes
           /\ ("color" \in DOMAIN strokes[b] /\ strokes[b].color.t = "str")
                 \/ b \notin DrawnStrokes

OrderingPressure(i) ==
    IF "pressure" \in DOMAIN strokes[i] THEN strokes[i].pressure.v ELSE 50000

\* Stroke i is ordered by a number: its pressure is one, or it has none.
OrderedAsNumber(i) ==
    "pressure" \notin DOMAIN strokes[i] \/ IsNumber(strokes[i].pressure)

\* C10: strokes are drawn in ascending order of pressure, strokes of equal
\* pressure in their original order; a stroke without a pressure is ordered
\* as if its pressure were 0.5.
C10_DrawnInStablePressureOrder ==
    pc = "rendered" =>
        \A n \in 1..(Len(canvas.lines) - 1) :
            LET a == canvas.lines[n].stroke
                b == canvas.lines[n + 1].stroke
            IN  IF OrderedAsNumber(a) /\ OrderedAsNumber(b)
                THEN \/ OrderingPressure(a) < OrderingPressure(b)
                     \/ (OrderingPressure(a) = OrderingPressure(b) /\ a < b)
                ELSE strokes[a].pressure = strokes[b].pressure /\ a < b

\* A stroke without pressure, one of pressure 0.2 and one of pressure 0.5
\* were given in this order and drawn as 0.2, no pressure, 0.5.
C10_Witness ==
    /\ pc = "rendered"
    /\ Len(strokes) = 3
    /\ "pressure" \notin DOMAIN strokes[1]
    /\ "pressure" \in DOMAIN strokes[2] /\ strokes[2].pressure = PyFloat(20000)
    /\ "pressure" \in DOMAIN strokes[3] /\ strokes[3].pressure = PyFloat(50000)
    /\ Len(canvas.lines) = 3
    /\ canvas.lines[1].stroke = 2
    /\ canvas.lines[2].stroke = 1
    /\ canvas.lines[3].stroke = 3

-----------------------------------------------------------------------------
(* Properties of the samplers *)

\* The base strokes of a 'Realism' plan of a 100 x 100 image have just been
\* sampled.
RealismSampled100 ==
    /\ pc = "sampled"
    /\ art_type = "Realism"
    /\ image.w = 100
    /\ image.h = 100

\* C11 (as stated): for a 100 x 100 image with art type 'Realism' the
\* Realistic sampler emits at most (100/5)^2 * 0.1 = 40 strokes.
C11_RealismAtMost40 == RealismSampled100 => Len(strokes) <= 40

\* C11 (amended): for a 100 x 100 image with art type 'Realism' the Realistic
\* sampler emits at most one stroke per grid point, (100/5)^2 = 400 strokes;
\* 40 is the expected count, not a bound.
C11_RealismAtMostOnePerPoint == RealismSampled100 => Len(strokes) <= 400

\* Every one of the 400 grid points emitted a stroke.
C11_Witness == RealismSampled100 /\ Len(strokes) = 400

\* The four keys of the medium_properties table.
TableMediums == {"Oil Paint", "Watercolor", "Pencil Art", "Digital Painting"}

\* The default of medium_properties.get(): viscosity 0.5, blending 0.7,
\* drying 0.5 (in tenths).
DefaultProps == [viscosity |-> 5, blending |-> 7, drying |-> 5]

\* The base strokes are those of the General strategy: type 'general' on the
\* stride-8 grid.
GeneralBaseStrokes ==
    \A i \in 1..Len(strokes) :
        /\ strokes[i].type = "general"
        /\ strokes[i].x.v % 8 = 0
        /\ strokes[i].y.v % 8 = 0

\* C12: selectors are matched case-sensitively and a miss is never an error:
\* an art_type other than exactly 'Impressionism', 'Cubism' or 'Realism' is
\* planned with the General strategy (stride 8) and plan_strokes does not
\* raise; a medium other than the four table keys gets the default
\* properties on every stroke.
C12_SelectorMissFallsBack ==
    /\ art_type \notin RecognizedArtTypes =>
            /\ pc # "plan_raised"
            /\ pc \in {"sampled", "adjusted"} => GeneralBaseStrokes
    /\ (medium_style \notin TableMediums /\ pc = "adjusted") =>
            \A i \in 1..Len(strokes) : strokes[i].medium_properties = DefaultProps

\* 'realism' with 'oil paint' was planned by the General strategy and
\* adjusted with the default properties.
C12_Witness ==
    /\ pc = "adjusted"
    /\ art_type = "realism"
    /\ medium_style = "oil paint"
    /\ Len(strokes) > 0
    /\ strokes[1].type = "general"
    /\ strokes[1].medium_properties = DefaultProps

-----------------------------------------------------------------------------
(* Properties of the medium adjuster *)

\* The medium adjuster has just run: strokes are the adjusted strokes and
\* before the sampled ones.
MediumAdjusted == pc = "adjusted" /\ Len(before) = Len(strokes)

\* Stroke i carries the record of the medium and its pressure is the sampled
\* pressure times the viscosity (tenths).
PressureScaled(i) ==
    /\ strokes[i].medium_properties = MediumProperties(medium_style)
    /\ 10 * strokes[i].pressure.v =
           before[i].pressure.v * MediumProperties(medium_style).viscosity

\* C13 (as stated): the medium adjuster sets pressure to sampled pressure *
\* viscosity and length to sampled length * (1 + blending * 0.5), with no
\* other change to either value, and attaches the medium-property record.
C13_LengthExactProduct ==
    MediumAdjusted =>
        \A i \in 1..Len(strokes) :
            /\ PressureScaled(i)
            /\ 20 * strokes[i].length.v =
                   before[i].length.v * (20 + MediumProperties(medium_style).blending)

\* C13 (amended): the medium adjuster sets pressure to sampled pressure *
\* viscosity, sets length to sampled length * (1 + blending * 0.5) truncated
\* to an integer, attaches the medium-property record and leaves every
\* other field of the stroke as sampled.
C13_LengthTruncatedProduct ==
    MediumAdjusted =>
        \A i \in 1..Len(strokes) :
            LET scaled == before[i].length.v *
                              (20 + MediumProperties(medium_style).blending)
            IN  /\ PressureScaled(i)
                /\ strokes[i].length.t = "int"
                /\ 20 * strokes[i].length.v <= scaled
                /\ scaled < 20 * (strokes[i].length.v + 1)
                /\ DOMAIN strokes[i] = DOMAIN before[i] \cup {"medium_properties"}
                /\ \A k \in DOMAIN before[i] \ {"pressure", "length"} :
                       strokes[i][k] = before[i][k]

\* A stroke whose scaled length was not an integer has been adjusted.
C13_Witness ==
    /\ MediumAdjusted
    /\ \E i \in 1..Len(strokes) :
           20 * strokes[i].length.v <
               before[i].length.v * (20 + MediumProperties(medium_style).blending)

-----------------------------------------------------------------------------
(* Properties of the gradient angle *)

\* (x, y) is an interior pixel of the image.
Interior(x, y) == 0 < x /\ x < image.w - 1 /\ 0 < y /\ y < image.h - 1

\* The signed central differences of the red channel at (x, y).
SignedDy(x, y) == PixelAt(image, x, y + 1)[1] - PixelAt(image, x, y - 1)[1]

SignedDx(x, y) == PixelAt(image, x + 1, y)[1] - PixelAt(image, x - 1, y)[1]

\* C14: at an interior pixel the gradient angle of a Realistic stroke is
\* atan2(dy, dx) of the true signed central differences of the red channel,
\* pi/2 when dx = 0; at an edge pixel it is a random value in [0, 2*pi).
C14_GradientOfSignedDifferences ==
    (pc = "sampled" /\ art_type = "Realism") =>
        \A i \in 1..Len(strokes) :
            LET x == strokes[i].x.v
                y == strokes[i].y.v
                a == strokes[i].angle.v
            IN  IF Interior(x, y)
                THEN a = IF SignedDx(x, y) # 0
                         THEN Atan2Milli(SignedDy(x, y), SignedDx(x, y))
                         ELSE HalfPiMilli
                ELSE 0 <= a /\ a < TwoPiMilli

-----------------------------------------------------------------------------
(* Properties of the shared state *)

\* C15: plan_strokes and simulate_stroke_rendering are pure with respect to
\* shared state: in any sequence or interleaving of calls on the one
\* simulator instance no step changes the fields stroke_sequences and
\* quantum_states, no step of a call changes its input image, and
\* simulate_stroke_rendering leaves its input stroke list and every stroke
\* in it unchanged.
C15_SharedStateUnchanged ==
    [][/\ sim' = sim
       /\ Next => /\ image' = image
                   /\ pc = "planned" => strokes' = strokes]_vars

\* Both request threads have planned and rendered on the shared instance,
\* the running one from a stroke list that was not in pressure order.
C15_Witness ==
    /\ pc = "rendered"
    /\ peer.pc = "rendered"
    /\ sim = NewSimulator
    /\ Len(canvas.lines) > 0
    /\ Len(peer.canvas.lines) > 0
    /\ \E i, j \in 1..Len(strokes) :
           i < j /\ strokes[i].pressure.v > strokes[j].pressure.v

-----------------------------------------------------------------------------
(* Properties of the colour sampling *)

\* The colour tuple of three int channels.
Rgb(c) == PyTuple(<<PyInt(c[1]), PyInt(c[2]), PyInt(c[3])>>)

\* The strokes of a grid sampler, at any step of plan_strokes after it.
GridSampled ==
    /\ art_type # "Cubism"
    /\ pc \in {"sampled", "adjusted", "tunneled", "entangled", "planned"}

\* C16: for the Impressionist, Realistic and General samplers every
\* non-tunneled stroke lies inside the image and its colour is the first
\* three channels of the source pixel at its (x, y), so the out-of-bounds
\* gray is not produced for it; in an image of one colour every stroke has
\* that colour or the gray.
C16_ColorIsSourcePixel ==
    GridSampled =>
        \A i \in 1..Len(strokes) :
            LET x == strokes[i].x.v
                y == strokes[i].y.v
            IN  /\ "quantum_tunnel" \notin DOMAIN strokes[i] =>
                       /\ 0 <= x /\ x < image.w /\ 0 <= y /\ y < image.h
                       /\ strokes[i].color = Rgb(PixelAt(image, x, y))
                /\ image.kind = "red" =>
                       strokes[i].color \in {Rgb(<<255, 0, 0>>), Rgb(<<128, 128, 128>>)}

\* A plan of the ramp image holds a sampled stroke away from the diagonal
\* and a tunneled copy.
C16_Witness ==
    /\ GridSampled
    /\ pc = "planned"
    /\ image.kind = "ramp"
    /\ \E i, j \in 1..Len(strokes) :
           /\ "quantum_tunnel" \notin DOMAIN strokes[i]
           /\ strokes[i].x.v # strokes[i].y.v
           /\ "quantum_tunnel" \in DOMAIN strokes[j]

-----------------------------------------------------------------------------
(* Properties of the stroke record *)

\* C17: every stroke returned by plan_strokes, for every art type including
\* Cubism, carries integer pixel coordinates x and y.
C17_ReturnedStrokesHaveXY ==
    pc = "planned" =>
        \A i \in 1..Len(strokes) :
            /\ "x" \in DOMAIN strokes[i] /\ strokes[i].x.t = "int"
            /\ "y" \in DOMAIN strokes[i] /\ strokes[i].y.t = "int"

\* The radian measures of 0, 45, 90 and 135 degrees, in milliradians.
CubistRadians == {0, 785, 1571, 2356}

\* C18: the angle stored in every planned stroke is a radian measure: the
\* Cubist strokes store the radian equivalents of 0, 45, 90 and 135 degrees
\* (0, pi/4, pi/2, 3*pi/4), the grid samplers an angle atan2 or
\* uniform(0, 2*pi) produced.
C18_AnglesAreRadians ==
    pc \in {"sampled", "planned"} =>
        \A i \in 1..Len(strokes) :
            IF art_type = "Cubism"
            THEN \E a \in CubistRadians :
                    Abs(strokes[i].angle.v - a) <= 1
            ELSE /\ -PiMilli <= strokes[i].angle.v
                 /\ strokes[i].angle.v < TwoPiMilli

-----------------------------------------------------------------------------
(* Properties of the Cubist cells *)

\* The cells of the sampled Cubist strokes.
SampledCells == {strokes[i].region : i \in 1..Len(strokes)}

\* Pixel (x, y) belongs to cell c.
InCell(x, y, c) ==
    /\ c.x <= x /\ x < c.x + c.width
    /\ c.y <= y /\ y < c.y + c.height

\* C19: for every width W >= 1 and height H >= 1 the Cubist cells partition
\* the image: every cell lies inside the image with width and height in
\* 1..100, every pixel belongs to exactly one cell (so no two cells
\* overlap), and there are ceil(W/100) * ceil(H/100) cells.
C19_CellsPartitionImage ==
    (pc = "sampled" /\ art_type = "Cubism") =>
        /\ \A c \in SampledCells :
               /\ 0 <= c.x /\ c.x + c.width <= image.w
               /\ 0 <= c.y /\ c.y + c.height <= image.h
               /\ c.width \in 1..100
               /\ c.height \in 1..100
        /\ \A x \in 0..(image.w - 1), y \in 0..(image.h - 1) :
               Cardinality({c \in SampledCells : InCell(x, y, c)}) = 1
        /\ Cardinality(SampledCells) = CeilHundredth(image.w) * CeilHundredth(image.h)
        /\ Len(strokes) = Len(CubistAngles) * Cardinality(SampledCells)

\* A 201 x 101 image was divided into 3 x 2 cells, the last column one pixel
\* wide and the last row one pixel high.
C19_Witness ==
    /\ pc = "sampled"
    /\ art_type = "Cubism"
    /\ image.w = 201
    /\ image.h = 101
    /\ Cardinality(SampledCells) = 6
    /\ \E c \in SampledCells : c.width = 1 /\ c.height = 1

-----------------------------------------------------------------------------
(* Properties of the grid samplers *)

\* Stride, length range and pressure range (1/100000) the description gives
\* for the sampler of art type art.
DocumentedGrid(art) ==
    IF art = "Impressionism"
    THEN [stride |-> 10, lenLo |-> 5, lenHi |-> 15, pLo |-> 30000, pHi |-> 80000]
    ELSE IF art = "Realism"
    THEN [stride |-> 5, lenLo |-> 10, lenHi |-> 30, pLo |-> 20000, pHi |-> 60000]
    ELSE [stride |-> 8, lenLo |-> 8, lenHi |-> 25, pLo |-> 40000, pHi |-> 70000]

\* C20: every base stroke of the grid samplers sits on a grid point inside
\* the image, x and y multiples of the stride; at most one stroke is emitted
\* per grid point; stride, length range and pressure range are
\* (10, 5..15, [0.3, 0.8]) for Impressionism, (5, 10..30, [0.2, 0.6]) for
\* Realism and (8, 8..25, [0.4, 0.7]) for the General fallback.
C20_GridPointsAndRanges ==
    (pc = "sampled" /\ art_type # "Cubism") =>
        LET g == DocumentedGrid(art_type)
        IN  /\ \A i \in 1..Len(strokes) :
                   /\ strokes[i].x.v % g.stride = 0
                   /\ strokes[i].y.v % g.stride = 0
                   /\ 0 <= strokes[i].x.v /\ strokes[i].x.v < image.w
                   /\ 0 <= strokes[i].y.v /\ strokes[i].y.v < image.h
                   /\ strokes[i].length.v \in g.lenLo..g.lenHi
                   /\ g.pLo <= strokes[i].pressure.v
                   /\ strokes[i].pressure.v <= g.pHi
            /\ \A i, j \in 1..Len(strokes) :
                   (strokes[i].x = strokes[j].x /\ strokes[i].y = strokes[j].y) => i = j

\* The Realistic sampler emitted at the last grid point (35, 25) of the
\* 40 x 30 image, and a stroke of the longest length.
C20_Witness ==
    /\ pc = "sampled"
    /\ art_type = "Realism"
    /\ image.w = 40
    /\ \E i, j \in 1..Len(strokes) :
           /\ strokes[i].x.v = 35 /\ strokes[i].y.v = 25
           /\ strokes[j].length.v = 30

-----------------------------------------------------------------------------
(* Properties of tunneling and entanglement *)

\* The keys tunneling sets on a clone.
TunnelKeys == {"x", "y", "quantum_state", "quantum_tunnel"}

\* clone is a tunneled copy of source: the flag is set, x and y are shifted
\* by integers in [-50, 50] and every other field but quantum_state equals
\* the source's.
TunneledCopyOf(clone, source) ==
    /\ DOMAIN clone = DOMAIN source \cup {"quantum_tunnel"}
    /\ clone.quantum_tunnel = TRUE
    /\ clone.x.t = "int" /\ clone.y.t = "int"
    /\ clone.x.v - source.x.v \in -50..50
    /\ clone.y.v - source.y.v \in -50..50
    /\ \A key \in DOMAIN source \ TunnelKeys : clone[key] = source[key]

\* C21: each clone appended by tunneling is a copy of a stroke that precedes
\* it in the growing sequence (earlier clones included) and differs from it
\* only in x and y (each shifted by an integer in [-50, 50]), quantum_state
\* and the tunneled flag; no stroke already in the sequence is modified.
C21_ClonesCopyEarlierStroke ==
    pc = "tunneled" =>
        /\ Len(strokes) >= Len(before)
        /\ SubSeq(strokes, 1, Len(before)) = before
        /\ \A j \in (Len(before) + 1)..Len(strokes) :
               \E i \in 1..(j - 1) : TunneledCopyOf(strokes[j], strokes[i])

\* Tunneling appended a clone of an earlier clone: its only possible sources
\* are themselves tunneled, and it is shifted on both axes.
C21_Witness ==
    /\ pc = "tunneled"
    /\ \E j \in (Len(before) + 1)..Len(strokes) :
           /\ \A i \in 1..(j - 1) :
                  TunneledCopyOf(strokes[j], strokes[i]) => i > Len(before)
           /\ \E i \in (Len(before) + 1)..(j - 1) :
                  /\ TunneledCopyOf(strokes[j], strokes[i])
                  /\ strokes[j].x # strokes[i].x
                  /\ strokes[j].y # strokes[i].y

\* C22: after entanglement over a sequence of length L, stroke k (0-based)
\* has a partner exactly when (k mod 5 = 0 and k + 1 < L) or k mod 5 = 1;
\* the partner of 5m is 5m + 1 and the partner of 5m + 1 is 5m; strokes at
\* indices 2, 3, 4 mod 5 and a last stroke at a multiple of 5 have none;
\* every partner index is an index of the sequence.
C22_PartnersByIndexMod5 ==
    pc \in {"entangled", "planned"} =>
        \A k \in 0..(Len(strokes) - 1) :
            LET has == "entangled_with" \in DOMAIN strokes[k + 1]
            IN  /\ has <=> \/ (k % 5 = 0 /\ k + 1 < Len(strokes))
                           \/ k % 5 = 1
                /\ has => /\ strokes[k + 1].entangled_with \in 0..(Len(strokes) - 1)
                          /\ strokes[k + 1].entangled_with =
                                 IF k % 5 = 0 THEN k + 1 ELSE k - 1

\* A returned sequence of 5m + 1 strokes, m >= 1: strokes 0 and 1 are
\* partners and the last stroke, at index 5m, has none.
C22_Witness ==
    /\ pc = "planned"
    /\ Len(strokes) >= 6
    /\ Len(strokes) % 5 = 1
    /\ "entangled_with" \notin DOMAIN strokes[Len(strokes)]
    /\ strokes[1].entangled_with = 1
    /\ strokes[2].entangled_with = 0

-----------------------------------------------------------------------------
(* Properties of the renderer's drawing *)

\* Strokes a and b differ only in quantum_tunnel.
DifferOnlyInTunnelFlag(a, b) ==
    /\ Get(a, "quantum_tunnel", FALSE) # Get(b, "quantum_tunnel", FALSE)
    /\ Without(a, "quantum_tunnel") = Without(b, "quantum_tunnel")

\* The line drawn for the stroke at position i of the input list, without
\* the position.
LineOf(i) ==
    LET n == CHOOSE n \in 1..Len(canvas.lines) : canvas.lines[n].stroke = i
    IN  [key \in (DOMAIN canvas.lines[n]) \ {"stroke"} |-> canvas.lines[n][key]]

\* C23: the tunneled flag has no effect on rendering: two strokes that
\* differ only in quantum_tunnel are both drawn or both skipped and, when
\* drawn, with the same endpoints, the same colour and width 2.
C23_TunnelFlagNoEffect ==
    pc = "rendered" =>
        \A i, j \in 1..Len(strokes) :
            DifferOnlyInTunnelFlag(strokes[i], strokes[j]) =>
                /\ i \in DrawnStrokes <=> j \in DrawnStrokes
                /\ i \in DrawnStrokes =>
                       /\ LineOf(i) = LineOf(j)
                       /\ LineOf(i).width = 2

\* The colour the description gives for the stroke: its own when it is a
\* tuple of three ints, the default gold otherwise.
DocumentedFill(stroke) ==
    IF "color" \in DOMAIN stroke /\ IsRgbTuple(stroke.color)
    THEN [c \in 1..3 |-> stroke.color.v[c].v]
    ELSE Gold

\* C24: the renderer draws each stroke in its own sampled colour with width
\* 2, and in the default gold (255,215,0) whenever the colour is absent or
\* malformed (not a sequence, a sequence of the wrong length, or with
\* non-integer entries); a bad colour alone never drops the stroke.
C24_BadColorDrawnGold ==
    pc = "rendered" =>
        \A i \in 1..Len(strokes) :
            (~NonNumericGeometry(strokes[i]) /\ NumericPressure(strokes[i])) =>
                /\ i \in DrawnStrokes
                /\ LineOf(i).fill = DocumentedFill(strokes[i])
                /\ LineOf(i).width = 2

----------------------------------------------------------------------------
(* Properties of the application services *)

\* The four service attributes of the app.
Services ==
    {app.ai_service, app.quantum_simulator, app.db_manager, app.image_processor}

\* C25: after init_artist_services the four services are all objects or all
\* None, and None without HF_TOKEN; when they are None a generate request
\* with a non-empty prompt is answered success false, 'AI service not
\* initialized', after no file write and no remote call.
C25_ServicesAllOrNothing ==
    app.phase # "boot" =>
        /\ Services = {"object"} \/ Services = {"None"}
        /\ ~app.hf_token => Services = {"None"}
        /\ (Services = {"None"} /\ app.phase = "responded"
                /\ app.request.prompt # "") =>
              /\ app.response.success = FALSE
              /\ app.response.error = "AI service not initialized"
              /\ app.writes = 0
              /\ app.remote = <<>>

C25_Witness ==
    /\ app.phase = "responded"
    /\ ~app.hf_token
    /\ Services = {"None"}
    /\ app.request.prompt # ""
    /\ app.request.file = "valid"
    /\ app.response.error = "AI service not initialized"

\* AIService.generate_art returned success and the route wrote the generated
\* image to its file.
GeneratedAndWritten ==
    /\ app.phase = "responded"
    /\ app.result.success
    /\ app.response.error # "cannot write file"

\* Number of files the request has written once the stroke image is saved:
\* the reference image if any, the generated image, the stroke image.
WritesWithStrokeImage == (IF app.request.file = "none" THEN 0 ELSE 1) + 2

\* C26: once AI generation has succeeded the response has success true and
\* the generated image_data, whatever stroke planning, rendering and the
\* database save did; when the stroke simulation failed stroke_data is null
\* and stroke_count is 0, otherwise stroke_count is the number of strokes
\* plan_strokes returned.
C26_StrokeAndSaveFailuresTolerated ==
    GeneratedAndWritten =>
        /\ app.response.success
        /\ app.response.image_data = app.result.image_data
        /\ app.response.image_data # "None"
        /\ IF pc = "rendered" /\ app.writes = WritesWithStrokeImage
           THEN /\ app.response.stroke_data # "None"
                /\ app.response.stroke_count = Len(strokes)
           ELSE /\ app.response.stroke_data = "None"
                /\ app.response.stroke_count = 0

C26_Witness ==
    /\ GeneratedAndWritten
    /\ app.request.art_type = "Cubism"
    /\ pc = "plan_raised"
    /\ db.last.op = "save"
    /\ ~db.last.ok
    /\ app.response.success
    /\ app.response.stroke_count = 0

\* AIService.generate_art has been called for the request in progress.
GenerateArtCalled == app.result # NoResult

\* The remote call generate_art makes for the request's reference image.
ExpectedCall ==
    IF app.request.file = "none" THEN "text_to_image" ELSE "image_to_image"

\* The dict is one of the two documented shapes.
ResultWellFormed ==
    IF app.result.success
    THEN /\ app.result.image_data # "None"
         /\ app.result.model_used =
               (IF app.request.art_type \in OfferedArtTypes
                THEN MODEL_MAPPING(app.request.art_type) ELSE DefaultModel)
    ELSE /\ app.result.error # "None"
         /\ app.result.image_data = "None"

\* C27 as stated: generate_art returns a well-formed dict and makes exactly
\* one remote call per invocation, image_to_image with a reference image and
\* text_to_image without.
C27_ExactlyOneRemoteCall ==
    GenerateArtCalled =>
        /\ ResultWellFormed
        /\ app.remote = <<ExpectedCall>>

\* C27 amended: generate_art returns a well-formed dict and makes at most
\* one remote call per invocation, of the kind the reference image selects:
\* exactly one when the result has success true or the remote call or the
\* encoding failed, none when the reference image could not be converted
\* before the call.
C27_AtMostOneRemoteCall ==
    GenerateArtCalled =>
        /\ ResultWellFormed
        /\ IF app.request.file = "truncated"
           THEN /\ app.remote = <<>>
                /\ ~app.result.success
           ELSE app.remote = <<ExpectedCall>>

C27_Witness ==
    /\ GenerateArtCalled
    /\ app.request.file = "truncated"
    /\ app.remote = <<>>
    /\ ~app.result.success
    /\ app.result.image_data = "None"

----------------------------------------------------------------------------
(* Properties of the artwork history and of the database manager *)

\* C28: every artwork in a history response has the stored user_id of the
\* requested user ('anonymous' when the parameter is absent), and the
\* response holds at most 20 artworks.
C28_HistoryOnlyRequestedUser ==
    (app.phase = "idle" /\ app.response.kind = "history"
        /\ app.response.success) =>
        /\ Len(app.response.artworks) <= 20
        /\ \A i \in 1..Len(app.response.artworks) :
              app.response.artworks[i].user_id = app.response.user_id

\* C29: a save_artwork or get_artwork_history issued while the database is
\* reachable succeeds, whatever failed connects, failed operations and
\* close() calls came before it.
C29_OperationsRecover ==
    (db.connection # "off" /\ db.last.op \in {"save", "history"}
        /\ db.last.reachable) => db.last.ok

====
